---------------------------- MODULE Spec2Model ----------------------------
(***************************************************************************)
(* A model of the survey tools of this repository:                         *)
(*   for_debug.py        main / get_labels  (label resolution, % rows)     *)
(*   app_cross_cal2.py   parse_markdown_yaml, clean_val, the crosstab      *)
(*   tableau_tate.py     parse_metadata, transform_to_tableau_format       *)
(*                                                                         *)
(* Python strings are sequences of one-character strings, so that split,   *)
(* strip and lower are computed the way the code computes them.  A label   *)
(* is a sequence too; a fixed Japanese word of the source is one element   *)
(* of it, written in ASCII (the source's word is given in the comment).    *)
(* A Python dict is a sequence of [k, v] entries in insertion order.       *)
(***************************************************************************)
EXTENDS Integers, Sequences, FiniteSets, TLC

(***************************************************************************)
(* Bounds of the model.                                                    *)
(***************************************************************************)
\* longest generated raw value (for_debug get_labels)
MaxLen == 3
\* rows of the choice master c_csv that are loaded (for_debug)
MaxChoiceRows == 2
\* distinct answer labels of one question in the tallied data (for_debug report)
MaxChoices == 6
\* rows of the raw data d_csv that are tallied (for_debug report)
MaxRespondents == 6
\* fenced blocks of a definition document
MaxBlocks == 2
\* lines under "choices:" in a definition document, all blocks together
MaxChoiceLines == 2
\* respondent rows of the raw data of the crosstab (app_cross_cal2)
MaxRows == 3
\* respondent rows of the data the converter reads (tableau_tate)
MaxDataRows == 2
\* lines of the request text of the report pages (app2, opp)
MaxRequests == 3

(***************************************************************************)
(* Strings.                                                                *)
(***************************************************************************)
\* the characters raw values are generated from
Alphabet == {"1", "2", "0", ".", ",", " "}

RECURSIVE StringsUpTo(_)
\* every string over Alphabet of length <= n
StringsUpTo(n) ==
  IF n = 0 THEN {<<>>}
  ELSE LET shorter == StringsUpTo(n - 1)
       IN  shorter \cup {Append(s, c) : s \in shorter, c \in Alphabet}

\* str.lower() on one character
LowerChar(c) ==
  CASE c = "N" -> "n"
    [] c = "A" -> "a"
    [] c = "O" -> "o"
    [] c = "E" -> "e"
    [] c = "U" -> "u"
    [] c = "L" -> "l"
    [] OTHER   -> c

\* str.lower()
Lower(s) == [i \in 1..Len(s) |-> LowerChar(s[i])]

IsSpace(c) == c = " "

RECURSIVE LStrip(_)
LStrip(s) == IF s # <<>> /\ IsSpace(Head(s)) THEN LStrip(Tail(s)) ELSE s

RECURSIVE RStrip(_)
RStrip(s) ==
  IF s # <<>> /\ IsSpace(s[Len(s)]) THEN RStrip(SubSeq(s, 1, Len(s) - 1)) ELSE s

\* str.strip()
Strip(s) == RStrip(LStrip(s))

RECURSIVE Split(_, _)
\* str.split(d): the parts between the occurrences of d, empty parts kept
Split(s, d) ==
  IF s = <<>> THEN << <<>> >>
  ELSE LET rest == Split(Tail(s), d)
       IN  IF Head(s) = d
           THEN << <<>> >> \o rest
           ELSE << <<Head(s)>> \o Head(rest) >> \o Tail(rest)

RECURSIVE Join(_, _)
\* d.join(parts)
Join(parts, d) ==
  IF parts = <<>> THEN <<>>
  ELSE IF Len(parts) = 1 THEN parts[1]
  ELSE parts[1] \o <<d>> \o Join(Tail(parts), d)

\* the values the code takes for a missing answer: ['nan', '', 'none', 'null']
MissingWords ==
  { <<"n","a","n">>, <<>>, <<"n","o","n","e">>, <<"n","u","l","l">> }

\* spellings of the missing words in several letter cases, and two codes
\* longer than MaxLen
LongValues ==
  { <<"n","a","n">>, <<"N","a","N">>, <<"N","A","N">>,
    <<"n","o","n","e">>, <<"N","o","n","e">>, <<"N","O","N","E">>,
    <<"n","u","l","l">>, <<"N","u","l","l">>, <<"N","U","L","L">>,
    <<"2",".","1","0">>, <<"1",".","0",",","2",".","0">> }

(***************************************************************************)
(* Python dicts: a sequence of entries with distinct keys.                 *)
(***************************************************************************)
Keys(d) == {d[i].k : i \in 1..Len(d)}

Has(d, key) == key \in Keys(d)

\* d.get(key, default)
Get(d, key, default) ==
  IF Has(d, key)
  THEN d[CHOOSE i \in 1..Len(d) : d[i].k = key].v
  ELSE default

\* d[key] = val: a present key keeps its place and takes the new value
Put(d, key, val) ==
  IF Has(d, key)
  THEN [i \in 1..Len(d) |-> IF d[i].k = key THEN [k |-> key, v |-> val] ELSE d[i]]
  ELSE Append(d, [k |-> key, v |-> val])

(***************************************************************************)
(* for_debug.py                                                            *)
(***************************************************************************)
\* "無回答"
NoAnswer == <<"NoAnswer">>

Q03 == <<"Q","0","-","3">>
Q01 == <<"Q","0","-","1">>
Q5  == <<"Q","5">>
Q9  == <<"Q","9">>

\* area_age_maps: the built-in tables of the two override axes
area_age_maps ==
  << [k |-> Q03,
      v |-> << [k |-> <<"1">>, v |-> <<"Nisshin">>],      \* 日進
               [k |-> <<"2">>, v |-> <<"Kawazoe">>],      \* 川添
               [k |-> <<"3">>, v |-> <<"Misedani">>],     \* 三瀬谷
               [k |-> <<"4">>, v |-> <<"Ogihara">>],      \* 荻原
               [k |-> <<"5">>, v |-> <<"Ryonai">>],       \* 領内
               [k |-> <<"6">>, v |-> <<"Osugidani">>] >>],\* 大杉谷
     [k |-> Q01,
      v |-> << [k |-> <<"1">>, v |-> <<"under65">>],      \* 65歳未満
               [k |-> <<"2">>, v |-> <<"65-69">>],
               [k |-> <<"3">>, v |-> <<"70-74">>],
               [k |-> <<"4">>, v |-> <<"75-79">>],
               [k |-> <<"5">>, v |-> <<"80-84">>],
               [k |-> <<"6">>, v |-> <<"85-89">>],
               [k |-> <<"7">>, v |-> <<"90over">>] >>] >> \* 90歳以上

\* p.split('.')[0]
BeforeDot(p) == Split(p, ".")[1]

\* a cleaning that only drops a trailing ".0"
StripDotZero(p) ==
  IF Len(p) >= 2 /\ SubSeq(p, Len(p) - 1, Len(p)) = <<".", "0">>
  THEN SubSeq(p, 1, Len(p) - 2)
  ELSE p

\* clean_p = p.split('.')[0]
clean_p(p) == BeforeDot(p)

\* the label of one part p of a value of question qid, ignoring the override tables
label_of_part_no_override(choice_map, qid, p) ==
  Get(Get(choice_map, qid, <<>>), clean_p(p), <<"Choice">> \o clean_p(p))

\* the label of one part p of a value of question qid (the body of the loop)
label_of_part(choice_map, qid, p) ==
  IF Has(area_age_maps, qid)
  THEN Get(Get(area_age_maps, qid, <<>>), clean_p(p),
           <<"Unknown(">> \o clean_p(p) \o <<")">>)              \* 不明(..)
  ELSE Get(Get(choice_map, qid, <<>>), clean_p(p),
           <<"Choice">> \o clean_p(p))                           \* 選択肢..

\* parts = [p.strip() for p in str(val_str).split(',')]
parts_of(val_str) ==
  LET raw == Split(val_str, ",") IN [i \in 1..Len(raw) |-> Strip(raw[i])]

\* the list labels that get_labels builds for a value that is not missing
labels_of(choice_map, qid, val_str) ==
  LET parts == parts_of(val_str)
  IN  [i \in 1..Len(parts) |-> label_of_part(choice_map, qid, parts[i])]

\* not val_str or str(val_str).lower() in ['nan', '', 'none', 'null']
is_missing(val_str) == val_str = <<>> \/ Lower(val_str) \in MissingWords

get_labels(choice_map, qid, val_str) ==
  IF is_missing(val_str)
  THEN NoAnswer
  ELSE Join(labels_of(choice_map, qid, val_str), ",")

\* one row of c_csv read into choice_map
load_choice(choice_map, qid, choice_value, choice_label) ==
  LET q == Strip(qid)
      val == BeforeDot(Strip(choice_value))
      label == Strip(choice_label)
  IN  IF q # <<>> /\ val # <<>>
      THEN Put(choice_map, q, Put(Get(choice_map, q, <<>>), val, label))
      ELSE choice_map


(***************************************************************************)
(* Percentages: f"{x:.1%}" and f"{x*100:.1f}%".                            *)
(***************************************************************************)
\* a/t as a percentage cut to one decimal (the digits after it dropped), in tenths
PctTenthsTruncated(a, t) == (1000 * a) \div t

\* a/t shown as a percentage with one decimal, in tenths of a percent: 862 is
\* "86.2%".  Python rounds the float to the nearest tenth; a/t*100 lies exactly
\* between two tenths only when 16 divides t, and is then rounded to the even one.
PctTenths(a, t) ==
  LET q == (1000 * a) \div t
      r == (1000 * a) % t
  IN  IF 2 * r > t THEN q + 1
      ELSE IF 2 * r < t THEN q
      ELSE IF q % 2 = 0 THEN q ELSE q + 1

RECURSIVE SumOver(_, _)
\* sum(f[x] for x in S)
SumOver(f, S) ==
  IF S = {} THEN 0
  ELSE LET x == CHOOSE y \in S : TRUE IN f[x] + SumOver(f, S \ {x})

\* the labels of the analysis axis that occur in the data
AxisLabels == {"Nisshin", "Kawazoe"}

\* the answer labels that occur in the data, numbered
ChoiceLabels == 1..MaxChoices

\* all_choices: the labels seen in any row
all_choices(cnt) == {c \in ChoiceLabels : \E a \in AxisLabels : cnt[a][c] > 0}

\* counts.keys(): the axis labels seen in any row
axis_keys(cnt) == {a \in AxisLabels : \E c \in ChoiceLabels : cnt[a][c] > 0}

\* total = sum(row_vals.values())
row_total(cnt, a) == SumOver(cnt[a], ChoiceLabels)

\* the percentage row of axis label a: one cell per label of all_choices
percent_row(cnt, a) ==
  [c \in all_choices(cnt) |-> PctTenths(cnt[a][c], row_total(cnt, a))]

\* the rows written for one question: one per axis label whose total is > 0
percent_rows(cnt) ==
  [a \in {b \in axis_keys(cnt) : row_total(cnt, b) > 0} |-> percent_row(cnt, a)]

(***************************************************************************)
(* Definition documents.  A document is its level-2 headers, in order, and *)
(* its fenced yaml blocks, in order; a block is the sequence of its lines. *)
(* A line is                                                               *)
(*   "qid"      qid: <v>                  "type"  type: <v>                 *)
(*   "choices"  choices:                  "pair"  an indented  <k>: <v>     *)
(*   "junk"     an indented line with no "<k>: <v>" in it                   *)
(* The fence itself and its {...} attribute are not part of a block here.  *)
(***************************************************************************)
QidLine(q)     == [t |-> "qid", k |-> <<>>, v |-> q]
TypeLine(ty)   == [t |-> "type", k |-> <<>>, v |-> ty]
ChoicesLine    == [t |-> "choices", k |-> <<>>, v |-> <<>>]
PairLine(c, l) == [t |-> "pair", k |-> c, v |-> l]
JunkLine       == [t |-> "junk", k |-> <<>>, v |-> <<>>]

Q1 == <<"Q", "1">>
Q2 == <<"Q", "2">>

\* the smallest element of a non-empty set of numbers
Min(S) == CHOOSE x \in S : \A y \in S : x <= y

\* the indices of the lines of one kind
LinesOfKind(lines, kind) == {i \in 1..Len(lines) : lines[i].t = kind}

\* a line that starts in column 0 with "<word>:", which ends a choices block
IsTopLevelKey(line) == line.t \in {"qid", "type", "choices"}

IsPair(line) == line.t = "pair"

RECURSIVE DictOf(_)
\* {k: v for k, v in pairs}: the pair lines stored in order, a repeated key
\* taking the later value
DictOf(pairs) ==
  IF pairs = <<>> THEN <<>>
  ELSE LET n == Len(pairs)
       IN  Put(DictOf(SubSeq(pairs, 1, n - 1)), pairs[n].k, pairs[n].v)

\* header_map: the headers as a dict
header_map_of(headers) == DictOf(headers)

(***************************************************************************)
(* app_cross_cal2.py: parse_markdown_yaml                                  *)
(***************************************************************************)
\* re.search(r'choices:\n(.*?)(?=\n\w+:|\Z)', body): the lines after the first
\* "choices:" up to the next line that starts with "<word>:" (the line right
\* after "choices:" always belongs to the match)
choice_block(body) ==
  IF LinesOfKind(body, "choices") = {} THEN <<>>
  ELSE LET c == Min(LinesOfKind(body, "choices"))
           stops == {i \in (c + 2)..Len(body) : IsTopLevelKey(body[i])}
           last == IF stops = {} THEN Len(body) ELSE Min(stops) - 1
       IN  SubSeq(body, c + 1, last)

\* choices of one block: the pair lines of its choice block
yaml_choices(body) == DictOf(SelectSeq(choice_block(body), IsPair))

\* header_map.get(qid, qid)
yaml_title(header_map, qid) == Get(header_map, qid, qid)

\* questions[qid] = {'title': ..., 'choices': choices} for a block with a qid
yaml_entry(header_map, body) ==
  LET qid == body[Min(LinesOfKind(body, "qid"))].v
  IN  [title |-> yaml_title(header_map, qid), choices |-> yaml_choices(body)]

RECURSIVE yaml_blocks_break(_, _)
\* the loop over the blocks, ended by the first block without "qid:"
yaml_blocks_break(header_map, blocks) ==
  IF blocks = <<>> THEN <<>>
  ELSE LET body == blocks[1]
       IN  IF LinesOfKind(body, "qid") = {}
           THEN <<>>
           ELSE LET rest == yaml_blocks_break(header_map, Tail(blocks))
                    qid == body[Min(LinesOfKind(body, "qid"))].v
                IN  IF Has(rest, qid)
                    THEN rest
                    ELSE <<[k |-> qid, v |-> yaml_entry(header_map, body)]>> \o rest

RECURSIVE yaml_blocks(_, _)
\* the loop over the blocks: a block without "qid:" is passed over
yaml_blocks(header_map, blocks) ==
  IF blocks = <<>> THEN <<>>
  ELSE LET n == Len(blocks)
           questions == yaml_blocks(header_map, SubSeq(blocks, 1, n - 1))
           body == blocks[n]
       IN  IF LinesOfKind(body, "qid") = {}
           THEN questions
           ELSE Put(questions, body[Min(LinesOfKind(body, "qid"))].v,
                    yaml_entry(header_map, body))

parse_markdown_yaml(headers, blocks) == yaml_blocks(header_map_of(headers), blocks)

(***************************************************************************)
(* tableau_tate.py: parse_metadata                                         *)
(***************************************************************************)
\* Q[\w-]+ : an id that starts with Q
IsQId(q) == Len(q) >= 2 /\ Head(q) = "Q"

\* the headers '^##\s+(Q[\w-]+)\s+(.*)$' matches, the text stripped
meta_header_map(headers) ==
  LET IsQHeader(h) == IsQId(h.k)
      hs == SelectSeq(headers, IsQHeader)
  IN  DictOf([i \in 1..Len(hs) |-> [k |-> hs[i].k, v |-> Strip(hs[i].v)]])

\* the "qid:" lines of a block that name an id starting with Q
meta_qid_lines(block) == {i \in LinesOfKind(block, "qid") : IsQId(block[i].v)}

\* block.split('choices:')[1]: the lines after the first "choices:" up to the next one
choices_part(block) ==
  LET c == Min(LinesOfKind(block, "choices"))
      next == {i \in LinesOfKind(block, "choices") : i > c}
      last == IF next = {} THEN Len(block) ELSE Min(next) - 1
  IN  SubSeq(block, c + 1, last)

\* the key and value the choice pattern reads from a line it matches
pair_of(line) ==
  IF line.t = "pair" THEN [k |-> line.k, v |-> Strip(line.v)]
  ELSE IF line.t = "qid" THEN [k |-> <<"q", "i", "d">>, v |-> Strip(line.v)]
  ELSE [k |-> <<"t", "y", "p", "e">>, v |-> Strip(line.v)]

\* re.findall(r'^\s+["\']?([\w.-]+)["\']?:\s*["\']?(.*?)["\']?$', choices_part):
\* the indented "<k>: <v>" lines, and also a "qid:" or "type:" line that comes
\* right after "choices:" (the line break before it counts as its indentation)
choice_pairs(part) ==
  LET Matches(i) == IsPair(part[i]) \/ (i = 1 /\ part[i].t \in {"qid", "type"})
      RECURSIVE From(_)
      From(i) == IF i > Len(part) THEN <<>>
                 ELSE IF Matches(i) THEN <<pair_of(part[i])>> \o From(i + 1)
                 ELSE From(i + 1)
  IN  From(1)

\* choices_map of one block
choices_map_of(block) ==
  IF LinesOfKind(block, "choices") = {} THEN <<>>
  ELSE DictOf(choice_pairs(choices_part(block)))

\* header_map.get(qid, "")
meta_question(header_map, qid) == Get(header_map, qid, <<>>)

RECURSIVE meta_blocks(_, _)
\* the loop over the blocks: only a block with both "qid:" and "type:" is kept
meta_blocks(header_map, blocks) ==
  IF blocks = <<>> THEN <<>>
  ELSE LET n == Len(blocks)
           q_defs == meta_blocks(header_map, SubSeq(blocks, 1, n - 1))
           block == blocks[n]
       IN  IF meta_qid_lines(block) # {} /\ LinesOfKind(block, "type") # {}
           THEN LET qid == block[Min(meta_qid_lines(block))].v
                    qtype == block[Min(LinesOfKind(block, "type"))].v
                IN  Put(q_defs, qid,
                        [Question |-> meta_question(header_map, qid),
                         type |-> qtype,
                         choices_map |-> choices_map_of(block)])
           ELSE q_defs

parse_metadata(headers, blocks) == meta_blocks(meta_header_map(headers), blocks)

(***************************************************************************)
(* app_cross_cal2.py: the crosstab of two columns of df_raw.  A row of     *)
(* df_raw is a function from the question columns to cells; a cell is the  *)
(* float NaN (an empty field of the csv) or the text of the value.         *)
(***************************************************************************)
\* the float nan that pd.read_csv gives for an empty field
NaN == <<"NaN">>

\* str(v)
StrOf(v) == IF v = NaN THEN <<"n", "a", "n">> ELSE v

\* "合計", margins_name
Total == <<"Total">>

\* clean_val(v)
clean_val(v) == IF v = NaN THEN NoAnswer ELSE BeforeDot(StrOf(v))

\* df_plot[var] = df_plot[var].apply(clean_val).map(lambda x: choices.get(x, x))
plot_label(defs, var, v) ==
  LET x == clean_val(v)
      choices == Get(defs, var, [choices |-> <<>>]).choices
  IN  Get(choices, x, x)

\* df_plot: the two chosen columns, as labels (r: the row axis, c: the column axis)
df_plot_of(defs, df, rv, cv) ==
  [i \in 1..Len(df) |-> [r |-> plot_label(defs, rv, df[i][rv]),
                         c |-> plot_label(defs, cv, df[i][cv])]]

\* the rows a crosstab that leaves out the no-answer rows would tally
tallied_rows_dropna(plot) ==
  {i \in 1..Len(plot) : plot[i].r # NoAnswer /\ plot[i].c # NoAnswer}

\* the rows pd.crosstab tallies: all of them (no label is NaN any more)
tallied_rows(plot) == 1..Len(plot)

row_labels(plot) == {plot[i].r : i \in tallied_rows(plot)}
col_labels(plot) == {plot[i].c : i \in tallied_rows(plot)}

\* the respondents counted in cell (r, c); Total stands for every label
cell_count(plot, r, c) ==
  Cardinality({i \in tallied_rows(plot) :
                 /\ r \in {Total, plot[i].r}
                 /\ c \in {Total, plot[i].c}})

\* pd.crosstab(rows, cols, margins=True, margins_name="合計")
crosstab_count(plot) ==
  [p \in (row_labels(plot) \cup {Total}) \X (col_labels(plot) \cup {Total})
     |-> cell_count(plot, p[1], p[2])]

\* what a table-wise normalisation divides by: the number of all respondents
percent_base_all(plot, r) == cell_count(plot, Total, Total)

\* what normalize='index' divides the cells of row r by: the total of the row
percent_base(plot, r) == cell_count(plot, r, Total)

\* pd.crosstab(rows, cols, normalize='index').applymap(lambda x: f"{x:.1%}")
crosstab_percent(plot) ==
  [p \in row_labels(plot) \X col_labels(plot)
     |-> PctTenths(cell_count(plot, p[1], p[2]), percent_base(plot, p[1]))]

RowsOf(table) == {p[1] : p \in DOMAIN table}
ColsOf(table) == {p[2] : p \in DOMAIN table}

(***************************************************************************)
(* tableau_tate.py: transform_to_tableau_format.  A row of data_df is a    *)
(* function from the columns to cells; the first column is the sample      *)
(* number.                                                                 *)
(***************************************************************************)
\* data_df.columns: the sample number, then the question columns
NoCol == <<"N", "o">>
DataColumns == <<NoCol, Q1, Q2>>

Single == <<"s", "i", "n", "g", "l", "e">>
Multi == <<"m", "u", "l", "t", "i">>

\* a test of line 71 that knows the float nan only
is_skipped_nan_only(val) == val = <<"n", "a", "n">>

\* val.lower() in ['nan', '', 'null', 'none']
is_skipped(val) == Lower(val) \in MissingWords

\* one output row
tidy_record(sample_no, qid, q_info, label) ==
  [No |-> sample_no, qid |-> qid, Question |-> q_info.Question,
   type |-> q_info.type, choices |-> label]

\* the rows one cell of a known question adds
cell_records(sample_no, qid, q_info, cell) ==
  LET val == StrOf(cell)
  IN  IF is_skipped(val) THEN <<>>
      ELSE IF q_info.type = Multi
      THEN LET parts == Split(val, ",")
               choices_list == [i \in 1..Len(parts) |-> Strip(parts[i])]
           IN  [i \in 1..Len(choices_list) |->
                  LET c_val == choices_list[i]
                      clean_c == BeforeDot(c_val)
                  IN  tidy_record(sample_no, qid, q_info,
                                  Get(q_info.choices_map, clean_c, c_val))]
      ELSE LET clean_value == BeforeDot(val)
           IN  <<tidy_record(sample_no, qid, q_info,
                             Get(q_info.choices_map, clean_value, val))>>

RECURSIVE row_records(_, _, _)
\* the inner loop: the columns of one row from the k-th on
row_records(defs, row, k) ==
  IF k > Len(DataColumns) THEN <<>>
  ELSE LET qid == DataColumns[k]
           rest == row_records(defs, row, k + 1)
       IN  IF qid = DataColumns[1] \/ ~Has(defs, qid) THEN rest
           ELSE cell_records(row[DataColumns[1]], qid, Get(defs, qid, <<>>), row[qid])
                  \o rest

RECURSIVE transform_to_tableau_format(_, _)
transform_to_tableau_format(data, defs) ==
  IF data = <<>> THEN <<>>
  ELSE transform_to_tableau_format(SubSeq(data, 1, Len(data) - 1), defs)
         \o row_records(defs, data[Len(data)], 1)

(***************************************************************************)
(* app2.py and opp.py: the report pages.  A row of the aggregated file is  *)
(* a function from the columns of the file to values; a request line is a  *)
(* sequence of tokens, "," and " " among them; a prompt is the record of   *)
(* the parts the template is filled with.                                  *)
(***************************************************************************)
\* required_cols
required_cols ==
  {"QuestionID", "QuestionText", "AnswerType", "Attribute", "Category", "Choice",
   "ValueType", "Value"}

\* a check of the columns that looks for the two filter columns only
has_filter_cols(columns) ==
  {"QuestionID", "Attribute"} \subseteq {columns[i] : i \in 1..Len(columns)}

\* required_cols.issubset(df.columns)
has_required_cols(columns) ==
  required_cols \subseteq {columns[i] : i \in 1..Len(columns)}

\* '全体'
Overall == <<"Overall">>

\* request_list: the lines that are not blank, each stripped and split at ","
request_list_of(request_text) ==
  LET NotBlank(line) == Strip(line) # <<>>
      lines == SelectSeq(request_text, NotBlank)
  IN  [i \in 1..Len(lines) |-> Split(Strip(lines[i]), ",")]

\* len(req) == 2
has_two_fields(req) == Len(req) = 2

\* not request_text.strip()
is_blank_text(request_text) == \A i \in 1..Len(request_text) : Strip(request_text[i]) = <<>>

\* a filter that looks at the question id only
subset_df_by_question(rows, qid, attr) ==
  LET Match(r) == r["QuestionID"] = qid
  IN  SelectSeq(rows, Match)

\* df[(df['QuestionID'] == qid) & (df['Attribute'] == attr)]
subset_df(rows, qid, attr) ==
  LET Match(r) == r["QuestionID"] = qid /\ r["Attribute"] = attr
  IN  SelectSeq(rows, Match)

\* df[[...]].to_markdown(index=False): the chosen columns of every row
to_markdown(rows, columns) ==
  [columns |-> columns,
   body |-> [i \in 1..Len(rows) |-> [j \in 1..Len(columns) |-> rows[i][columns[j]]]]]

\* the columns of the table: without Category for the overall attribute
table_columns(attribute) ==
  IF attribute = Overall THEN <<"Choice", "Value">> ELSE <<"Category", "Choice", "Value">>

\* app2.dataframe_to_markdown for a subset that is not empty; the header is
\* "### 分析対象: {question_text} ({question_id}, {attribute}, {answer_type}回答)"
dataframe_to_markdown(rows, question_id, attribute, question_text, answer_type) ==
  [header |-> <<question_text, question_id, attribute, answer_type>>,
   table |-> to_markdown(rows, table_columns(attribute))]

\* opp.dataframe_to_markdown for a subset that is not empty; the header is
\* "### {question_id}, {attribute}: {question_text} ({answer_type}回答)"
opp_dataframe_to_markdown(rows, question_id, attribute, question_text, answer_type) ==
  [header |-> <<question_id, attribute, question_text, answer_type>>,
   table |-> to_markdown(rows, table_columns(attribute))]

\* user_example_text of app2 and of opp
app2_user_example == "Q1 satisfaction by gender: fact, consideration"
opp_user_example == "Q1 overall, Q1 by gender, Q2 overall"

\* app2.generate_single_analysis_prompt
generate_single_analysis_prompt(data_markdown, user_example) ==
  [user_example |-> user_example, user_request |-> <<>>, data_markdown |-> <<data_markdown>>]

\* opp.generate_analysis_prompt
generate_analysis_prompt(data_markdown, user_request, user_example) ==
  [user_example |-> user_example, user_request |-> user_request,
   data_markdown |-> data_markdown]

\* the elements the script draws on the page
Subheader == [kind |-> "subheader", text |-> <<>>]
Markdown(text) == [kind |-> "markdown", text |-> text]
Warning(text) == [kind |-> "warning", text |-> text]
Error(text) == [kind |-> "error", text |-> text]

\* response.text of the answer to a prompt
ResponseText(prompt) == <<"comment on", prompt>>

\* an except branch that would draw the error in place of the page
st_error_alone(page, e) == <<Error(e)>>

\* st.error(f"エラーが発生しました: {e}") in the except branch: the elements
\* drawn before the exception stay on the page
st_error(page, e) == Append(page, Error(e))

\* the warning of a line that is not "<id>,<attribute>": ','.join(req)
bad_format_warning(req) == Warning(<<"bad format", Join(req, ",")>>)

\* the warning of a pair without rows
no_data_warning(qid, attr) == Warning(<<"no data", qid, attr>>)

\* the calls of the generation service and of time.sleep, as the outside sees them
CallEvent(prompt) == [ev |-> "generate_content", prompt |-> prompt]
SleepEvent == [ev |-> "sleep", prompt |-> <<>>]

(***************************************************************************)
(* State.                                                                  *)
(***************************************************************************)
VARIABLES
  \* for_debug.main: the choice master and one call of get_labels
  choice_map,      \* choice_map, qid -> (choice_value -> choice_label)
  n_choice_rows,   \* rows of c_csv read so far
  g_pc,            \* "load" while c_csv is read, "done" after get_labels returned
  g_qid,           \* get_labels' argument qid
  g_val,           \* get_labels' argument val_str
  g_labels,        \* get_labels' local list labels at its return
  g_out,           \* what get_labels returned
  \* for_debug.main: the table of one question under one analysis axis
  counts,          \* counts[axis_label][label], 0 where the key is absent
  report,          \* the percentage rows written to the report, per axis_label
  p_pc,            \* "tally" while d_reader is read, "done" after the rows are written
  \* a definition document and what a parser made of it
  doc_headers,     \* the "## <qid> <text>" headers of the document, in order
  doc_blocks,      \* the fenced yaml blocks of the document, in order
  parsed_by,       \* "none", or the parser that ran: "parse_markdown_yaml", "parse_metadata"
  q_defs,          \* the mapping the parser returned
  \* app_cross_cal2: one session of the crosstab page
  x_files,         \* md_file and data_file are uploaded
  df_raw,          \* the rows of the data file
  row_var,         \* the selectbox "行の見出し"
  col_var,         \* the selectbox "列の見出し"
  executed,        \* st.session_state['executed']
  df_plot,         \* df_plot at the end of the last run of the script
  ct_count,        \* the count table on the page
  ct_percent,      \* the percentage table on the page
  x_shown,         \* the two tables are on the page
  x_error,         \* st.error is on the page
  \* tableau_tate: one session of the converter page
  data_df,         \* the rows of the answer file
  result_df,       \* the rows of the converted table
  converted,       \* the conversion ran and its outcome is on the page
  empty_warning,   \* the warning of an empty result is on the page
  \* app2 / opp: one session of a report page
  app,             \* which page runs: "app2" (a call per pair) or "opp" (one call)
  gemini_api_key,  \* an API key is set
  df_file,         \* the uploaded aggregated file: its columns and rows
  file_state,      \* "none", "rejected" (the error of line 122) or "accepted"
  request_text,    \* the lines of the text area
  run_pc,          \* where the button handler is: "idle", "loop", "built", "call", "sleep", "done"
  run_i,           \* the position in request_list
  page,            \* the elements the handler has drawn, in order
  api_log,         \* the calls of generate_content and time.sleep of the run, in order
  in_flight,       \* the generation calls that have not returned
  filtered_data_markdown,  \* opp: the tables collected so far
  valid_requests   \* opp: the pairs collected so far

vars_debug == <<choice_map, n_choice_rows, g_pc, g_qid, g_val, g_labels, g_out>>

vars_report == <<counts, report, p_pc>>

vars_doc == <<doc_headers, doc_blocks, parsed_by, q_defs>>

vars_cross ==
  <<x_files, df_raw, row_var, col_var, executed, df_plot, ct_count, ct_percent,
    x_shown, x_error>>

vars_tidy == <<data_df, result_df, converted, empty_warning>>

vars_gen ==
  <<app, gemini_api_key, df_file, file_state, request_text, run_pc, run_i, page,
    api_log, in_flight, filtered_data_markdown, valid_requests>>

vars == <<vars_debug, vars_report, vars_doc, vars_cross, vars_tidy, vars_gen>>

(***************************************************************************)
(* for_debug.main: reading c_csv, then get_labels on one value.            *)
(***************************************************************************)
\* the fields a row of c_csv is drawn from
ChoiceRowQids == {Q03, Q5, <<>>}
ChoiceRowValues == { <<"1">>, <<"2", ".", "0">>, <<" ">> }
ChoiceRowLabels == { <<"A">>, <<>> }

\* the question ids get_labels is called with: both override axes, a declared
\* question and one the choice master never names
ResolveQids == {Q03, Q01, Q5, Q9}

\* the values get_labels is called with (row.get(qid, "").strip())
RawValues == {Strip(s) : s \in StringsUpTo(MaxLen)} \cup LongValues

\* the report table before any row of d_csv is read
InitReportVars ==
  /\ counts = [a \in AxisLabels |-> [c \in ChoiceLabels |-> 0]]
  /\ report = <<>>
  /\ p_pc = "tally"

\* no definition document
NoDocument ==
  /\ doc_headers = <<>>
  /\ doc_blocks = <<>>
  /\ parsed_by = "none"
  /\ q_defs = <<>>

\* the crosstab page before anything is uploaded
NoCrossSession ==
  /\ x_files = FALSE
  /\ df_raw = <<>>
  /\ row_var = <<>>
  /\ col_var = <<>>
  /\ executed = FALSE
  /\ df_plot = <<>>
  /\ ct_count = <<>>
  /\ ct_percent = <<>>
  /\ x_shown = FALSE
  /\ x_error = FALSE

\* the converter page before anything is uploaded
NoTidySession ==
  /\ data_df = <<>>
  /\ result_df = <<>>
  /\ converted = FALSE
  /\ empty_warning = FALSE

\* no file on the report page
NoFile == [columns |-> <<>>, rows |-> <<>>]

\* a report page before anything is uploaded
NoGenSession ==
  /\ df_file = NoFile
  /\ file_state = "none"
  /\ request_text = <<>>
  /\ run_pc = "idle"
  /\ run_i = 0
  /\ page = <<>>
  /\ api_log = <<>>
  /\ in_flight = 0
  /\ filtered_data_markdown = <<>>
  /\ valid_requests = <<>>

\* no report page is open
NoReportPage ==
  /\ app = "none"
  /\ gemini_api_key = FALSE
  /\ NoGenSession

\* no call of get_labels
NoLabelCall ==
  /\ choice_map = <<>>
  /\ n_choice_rows = 0
  /\ g_pc = "load"
  /\ g_qid = <<>>
  /\ g_val = <<>>
  /\ g_labels = <<>>
  /\ g_out = <<>>

InitDebug ==
  /\ InitReportVars
  /\ NoDocument
  /\ NoCrossSession
  /\ NoTidySession
  /\ NoReportPage
  /\ choice_map = <<>>
  /\ n_choice_rows = 0
  /\ g_pc = "load"
  /\ g_qid = <<>>
  /\ g_val = <<>>
  /\ g_labels = <<>>
  /\ g_out = <<>>

\* for row in c_reader: one row of the choice master
LoadChoiceRow ==
  /\ g_pc = "load"
  /\ n_choice_rows < MaxChoiceRows
  /\ \E q \in ChoiceRowQids, v \in ChoiceRowValues, l \in ChoiceRowLabels :
       choice_map' = load_choice(choice_map, q, v, l)
  /\ n_choice_rows' = n_choice_rows + 1
  /\ UNCHANGED <<g_pc, g_qid, g_val, g_labels, g_out>>
  /\ UNCHANGED <<vars_report, vars_doc, vars_cross, vars_tidy, vars_gen>>

\* get_labels(qid, val_str) on a value of the raw data
GetLabels ==
  /\ g_pc = "load"
  /\ \E q \in ResolveQids, v \in RawValues :
       /\ g_qid' = q
       /\ g_val' = v
       /\ g_labels' = IF is_missing(v) THEN <<>> ELSE labels_of(choice_map, q, v)
       /\ g_out' = get_labels(choice_map, q, v)
  /\ g_pc' = "done"
  /\ UNCHANGED <<choice_map, n_choice_rows>>
  /\ UNCHANGED <<vars_report, vars_doc, vars_cross, vars_tidy, vars_gen>>

NextDebug == LoadChoiceRow \/ GetLabels

SpecDebug == InitDebug /\ [][NextDebug]_vars


(***************************************************************************)
(* for_debug.main: the percentage table of one question under one axis.    *)
(***************************************************************************)
\* for row in d_reader: counts[axis_label][label] += 1
TallyRow ==
  /\ p_pc = "tally"
  /\ SumOver([a \in AxisLabels |-> row_total(counts, a)], AxisLabels) < MaxRespondents
  /\ \E a \in AxisLabels, c \in ChoiceLabels :
       counts' = [counts EXCEPT ![a][c] = @ + 1]
  /\ UNCHANGED <<report, p_pc>>
  /\ UNCHANGED <<vars_debug, vars_doc, vars_cross, vars_tidy, vars_gen>>

\* for axis_label in sorted(counts.keys()): the rows of the table are written
WriteRows ==
  /\ p_pc = "tally"
  /\ report' = percent_rows(counts)
  /\ p_pc' = "done"
  /\ UNCHANGED counts
  /\ UNCHANGED <<vars_debug, vars_doc, vars_cross, vars_tidy, vars_gen>>

InitReport ==
  /\ InitReportVars
  /\ NoLabelCall
  /\ NoDocument
  /\ NoCrossSession
  /\ NoTidySession
  /\ NoReportPage

NextReport == TallyRow \/ WriteRows

SpecReport == InitReport /\ [][NextReport]_vars

(***************************************************************************)
(* Parsing a definition document: the document is written block by block,  *)
(* then one of the two parsers reads it.                                   *)
(***************************************************************************)
\* the ids a block may name (none: the block has no "qid:" line)
BlockQids == {<<>>, Q1, Q2}

\* the types a block may name (none: the block has no "type:" line)
BlockTypes == {<<>>, <<"s", "i", "n", "g", "l", "e">>}

\* the lines that may stand under "choices:"
ChoiceLines == {PairLine(<<"1">>, <<"A">>), PairLine(<<"2">>, <<"B">>), JunkLine}

\* the headers of a document: none, or one for Q1
HeaderSets == { <<>>, <<[k |-> Q1, v |-> <<"Satisfaction">>]>> }

\* the lines of a block that names id q and type ty (each may be missing) and
\* has a "choices:" line or not
BlockLines(q, ty, has_choices) ==
     (IF q = <<>> THEN <<>> ELSE <<QidLine(q)>>)
  \o (IF ty = <<>> THEN <<>> ELSE <<TypeLine(ty)>>)
  \o (IF has_choices THEN <<ChoicesLine>> ELSE <<>>)

\* the lines under "choices:" in all blocks
NumChoiceLines(blocks) ==
  SumOver([i \in 1..Len(blocks) |->
             Cardinality(LinesOfKind(blocks[i], "pair") \cup LinesOfKind(blocks[i], "junk"))],
          1..Len(blocks))

InitParse ==
  /\ doc_headers \in HeaderSets
  /\ doc_blocks = <<>>
  /\ parsed_by = "none"
  /\ q_defs = <<>>
  /\ NoLabelCall
  /\ InitReportVars
  /\ NoCrossSession
  /\ NoTidySession
  /\ NoReportPage

\* a fenced block is added to the document
AddBlock ==
  /\ parsed_by = "none"
  /\ Len(doc_blocks) < MaxBlocks
  /\ \E q \in BlockQids, ty \in BlockTypes, has_choices \in BOOLEAN :
       doc_blocks' = Append(doc_blocks, BlockLines(q, ty, has_choices))
  /\ UNCHANGED <<doc_headers, parsed_by, q_defs>>
  /\ UNCHANGED <<vars_debug, vars_report, vars_cross, vars_tidy, vars_gen>>

\* a line is added under the "choices:" of the last block
AddChoiceLine ==
  /\ parsed_by = "none"
  /\ doc_blocks # <<>>
  /\ LinesOfKind(doc_blocks[Len(doc_blocks)], "choices") # {}
  /\ NumChoiceLines(doc_blocks) < MaxChoiceLines
  /\ \E line \in ChoiceLines :
       doc_blocks' = [doc_blocks EXCEPT ![Len(doc_blocks)] = Append(@, line)]
  /\ UNCHANGED <<doc_headers, parsed_by, q_defs>>
  /\ UNCHANGED <<vars_debug, vars_report, vars_cross, vars_tidy, vars_gen>>

\* q_defs = parse_markdown_yaml(md_content)
ParseMarkdownYaml ==
  /\ parsed_by = "none"
  /\ q_defs' = parse_markdown_yaml(doc_headers, doc_blocks)
  /\ parsed_by' = "parse_markdown_yaml"
  /\ UNCHANGED <<doc_headers, doc_blocks>>
  /\ UNCHANGED <<vars_debug, vars_report, vars_cross, vars_tidy, vars_gen>>

\* q_defs = parse_metadata(yaml_content)
ParseMetadata ==
  /\ parsed_by = "none"
  /\ q_defs' = parse_metadata(doc_headers, doc_blocks)
  /\ parsed_by' = "parse_metadata"
  /\ UNCHANGED <<doc_headers, doc_blocks>>
  /\ UNCHANGED <<vars_debug, vars_report, vars_cross, vars_tidy, vars_gen>>

NextParse == AddBlock \/ AddChoiceLine \/ ParseMarkdownYaml \/ ParseMetadata

SpecParse == InitParse /\ [][NextParse]_vars

(***************************************************************************)
(* app_cross_cal2: a session of the crosstab page.  Every interaction      *)
(* reruns the script from its top: an action is the interaction and the    *)
(* rerun it causes.                                                        *)
(***************************************************************************)
\* the definition document of the session: Q1 with a header and the choices
\* 1: A, 2: B, and Q2 without header, with the choice 1: A
CrossHeaders == <<[k |-> Q1, v |-> <<"Satisfaction">>]>>
CrossBlocks ==
  << BlockLines(Q1, <<>>, TRUE) \o <<PairLine(<<"1">>, <<"A">>), PairLine(<<"2">>, <<"B">>)>>,
     BlockLines(Q2, <<>>, TRUE) \o <<PairLine(<<"1">>, <<"A">>)>> >>

\* the question columns of the data file
CrossColumns == {Q1, Q2}

\* the cells of the data file
CrossCells == {NaN, <<"1", ".", "0">>, <<"n", "o", "n", "e">>}

\* qid_options: the parsed ids that are columns of the data, in parsing order
qid_options(defs) ==
  LET InData(e) == e.k \in CrossColumns
      es == SelectSeq(defs, InData)
  IN  [i \in 1..Len(es) |-> es[i].k]

\* the script from line 33 on, with both files uploaded; clicked: the button
\* "集計を実行" was pressed.  With one column on both axes df_plot[row_var] is
\* a frame of two columns, clean_val gets a whole column, and "if pd.isna(v)"
\* raises: the except of line 94 reports it and no table is drawn.
RunScript(df, rv, cv, clicked) ==
  LET defs == parse_markdown_yaml(doc_headers, doc_blocks)
      run == clicked \/ executed
      plot == df_plot_of(defs, df, rv, cv)
  IN  /\ q_defs' = defs
      /\ parsed_by' = "parse_markdown_yaml"
      /\ executed' = run
      /\ IF run /\ rv # cv
         THEN /\ df_plot' = plot
              /\ ct_count' = crosstab_count(plot)
              /\ ct_percent' = crosstab_percent(plot)
              /\ x_shown' = TRUE
              /\ x_error' = FALSE
         ELSE /\ df_plot' = <<>>
              /\ ct_count' = <<>>
              /\ ct_percent' = <<>>
              /\ x_shown' = FALSE
              /\ x_error' = run

InitCross ==
  /\ doc_headers = CrossHeaders
  /\ doc_blocks = CrossBlocks
  /\ parsed_by = "none"
  /\ q_defs = <<>>
  /\ NoCrossSession
  /\ NoTidySession
  /\ NoReportPage
  /\ NoLabelCall
  /\ InitReportVars

\* a respondent row is written to the data file before it is uploaded
AddDataRow ==
  /\ ~x_files
  /\ Len(df_raw) < MaxRows
  /\ \E row \in [CrossColumns -> CrossCells] : df_raw' = Append(df_raw, row)
  /\ UNCHANGED <<x_files, row_var, col_var, executed, df_plot, ct_count, ct_percent,
                 x_shown, x_error>>
  /\ UNCHANGED <<vars_debug, vars_report, vars_doc, vars_tidy, vars_gen>>

\* both files are uploaded: the selectboxes show their first option
Upload ==
  /\ ~x_files
  /\ df_raw # <<>>
  /\ x_files' = TRUE
  /\ LET first == qid_options(parse_markdown_yaml(doc_headers, doc_blocks))[1]
     IN  /\ row_var' = first
         /\ col_var' = first
         /\ RunScript(df_raw, first, first, FALSE)
  /\ UNCHANGED <<df_raw, doc_headers, doc_blocks>>
  /\ UNCHANGED <<vars_debug, vars_report, vars_tidy, vars_gen>>

\* another option is chosen in one of the two selectboxes
SelectAxes ==
  /\ x_files
  /\ \E rv, cv \in {q_defs[i].k : i \in 1..Len(q_defs)} \cap CrossColumns :
       /\ <<rv, cv>> # <<row_var, col_var>>
       /\ row_var' = rv
       /\ col_var' = cv
       /\ RunScript(df_raw, rv, cv, FALSE)
  /\ UNCHANGED <<x_files, df_raw, doc_headers, doc_blocks>>
  /\ UNCHANGED <<vars_debug, vars_report, vars_tidy, vars_gen>>

\* the button "集計を実行" is pressed
ClickExecute ==
  /\ x_files
  /\ RunScript(df_raw, row_var, col_var, TRUE)
  /\ UNCHANGED <<x_files, df_raw, row_var, col_var, doc_headers, doc_blocks>>
  /\ UNCHANGED <<vars_debug, vars_report, vars_tidy, vars_gen>>

\* the files are taken away: the else branch of line 96 clears the flag
RemoveFiles ==
  /\ x_files
  /\ x_files' = FALSE
  /\ executed' = FALSE
  /\ row_var' = <<>>
  /\ col_var' = <<>>
  /\ df_plot' = <<>>
  /\ ct_count' = <<>>
  /\ ct_percent' = <<>>
  /\ x_shown' = FALSE
  /\ x_error' = FALSE
  /\ UNCHANGED <<df_raw, vars_doc>>
  /\ UNCHANGED <<vars_debug, vars_report, vars_tidy, vars_gen>>

NextCross == AddDataRow \/ Upload \/ SelectAxes \/ ClickExecute \/ RemoveFiles

SpecCross == InitCross /\ [][NextCross]_vars

(***************************************************************************)
(* tableau_tate: a session of the converter page.                          *)
(***************************************************************************)
\* the definition documents of the session: Q1 single and Q2 multi, or Q1
\* multi alone (the column Q2 is then unknown)
TidyDocs ==
  { [headers |-> <<[k |-> Q1, v |-> <<"Satisfaction">>]>>,
     blocks |-> << BlockLines(Q1, Single, TRUE)
                     \o <<PairLine(<<"1">>, <<"A">>), PairLine(<<"2">>, <<"B">>)>>,
                   BlockLines(Q2, Multi, TRUE)
                     \o <<PairLine(<<"1">>, <<"A">>), PairLine(<<"2">>, <<"B">>)>> >>],
    [headers |-> <<[k |-> Q1, v |-> <<"Satisfaction">>]>>,
     blocks |-> << BlockLines(Q1, Multi, TRUE) \o <<PairLine(<<"1">>, <<"A">>)>> >>] }

\* the cells of the answer file
DataCells ==
  { NaN, <<"1", ".", "0">>, <<"1", ",", "2">>, <<"1", ",">>, <<"N", "O", "N", "E">> }

InitTidy ==
  /\ \E doc \in TidyDocs : doc_headers = doc.headers /\ doc_blocks = doc.blocks
  /\ parsed_by = "none"
  /\ q_defs = <<>>
  /\ NoTidySession
  /\ NoReportPage
  /\ NoCrossSession
  /\ NoLabelCall
  /\ InitReportVars

\* another answer file, one respondent longer, is put in place of the old
\* one: the page is drawn again without a result
AddRespondent ==
  /\ Len(data_df) < MaxDataRows
  /\ \E c1, c2 \in DataCells :
       data_df' = Append(data_df, [c \in {NoCol, Q1, Q2} |->
                                     IF c = NoCol THEN Len(data_df) + 1
                                     ELSE IF c = Q1 THEN c1 ELSE c2])
  /\ result_df' = <<>>
  /\ converted' = FALSE
  /\ empty_warning' = FALSE
  /\ UNCHANGED <<vars_debug, vars_report, vars_doc, vars_cross, vars_gen>>

\* the button "変換を開始": parse_metadata, then transform_to_tableau_format
Convert ==
  /\ LET defs == parse_metadata(doc_headers, doc_blocks)
         result == transform_to_tableau_format(data_df, defs)
     IN  /\ q_defs' = defs
         /\ parsed_by' = "parse_metadata"
         /\ result_df' = result
         /\ converted' = TRUE
         /\ empty_warning' = (result = <<>>)
  /\ UNCHANGED <<data_df, doc_headers, doc_blocks>>
  /\ UNCHANGED <<vars_debug, vars_report, vars_cross, vars_gen>>

NextTidy == AddRespondent \/ Convert

SpecTidy == InitTidy /\ [][NextTidy]_vars

(***************************************************************************)
(* app2 / opp: a session of a report page.  The button handler is cut at   *)
(* the calls it blocks on (generate_content, time.sleep) and at the turns  *)
(* of its loop.                                                            *)
(***************************************************************************)
\* the rows of the aggregated file
SampleRow(qid, text, type, attr, cat, choice, value) ==
  [c \in required_cols \cup {"Memo"} |->
     CASE c = "QuestionID" -> qid
       [] c = "QuestionText" -> text
       [] c = "AnswerType" -> type
       [] c = "Attribute" -> attr
       [] c = "Category" -> cat
       [] c = "Choice" -> choice
       [] c = "ValueType" -> "count"
       [] c = "Value" -> value
       [] OTHER -> "memo"]

SampleRows ==
  << SampleRow(<<"Q1">>, "Satisfaction", "Single", Overall, "Overall", "Satisfied", 400),
     SampleRow(<<"Q1">>, "Satisfaction", "Single", <<"Gender">>, "Male", "Satisfied", 250),
     SampleRow(<<"Q1">>, "Satisfaction", "Single", <<"Gender">>, "Female", "Satisfied", 150),
     SampleRow(<<"Q2">>, "Features", "Multiple", Overall, "Overall", "A", 300) >>

\* the file with the columns columns of SampleRows
FileOf(columns) ==
  [columns |-> columns,
   rows |-> [i \in 1..Len(SampleRows) |->
               [c \in {columns[j] : j \in 1..Len(columns)} |-> SampleRows[i][c]]]]

\* the files that may be uploaded: the eight columns in the documented order;
\* the eight in another order with one more column; one without Value; one
\* without Attribute
DataFiles ==
  { FileOf(<<"QuestionID", "QuestionText", "AnswerType", "Attribute", "Category",
             "Choice", "ValueType", "Value">>),
    FileOf(<<"Value", "Memo", "ValueType", "Choice", "Category", "Attribute",
             "AnswerType", "QuestionText", "QuestionID">>),
    FileOf(<<"QuestionID", "QuestionText", "AnswerType", "Attribute", "Category",
             "Choice", "ValueType">>),
    FileOf(<<"QuestionID", "QuestionText", "AnswerType", "Category", "Choice",
             "ValueType", "Value">>) }

\* the lines that may be typed: two pairs with rows (one with blanks around
\* its fields), a pair without rows, a line of one field, a line of three
\* fields, a blank line
RequestLines ==
  { <<"Q1", ",", "Overall">>,
    <<" ", "Q1", " ", ",", " ", "Gender", " ">>,
    <<"Q2", ",", "Gender">>,
    <<"Q2">>,
    <<"Q2", ",", "Overall", ",">>,
    <<" ">> }

\* the messages of the exceptions generate_content may raise
GenErrors == {"quota exceeded", "API key not valid"}

InitGen ==
  /\ app \in {"app2", "opp"}
  /\ gemini_api_key \in BOOLEAN
  /\ NoGenSession
  /\ NoTidySession
  /\ NoCrossSession
  /\ NoDocument
  /\ NoLabelCall
  /\ InitReportVars

\* a file is uploaded and the script checks its columns
UploadFile ==
  /\ file_state = "none"
  /\ \E f \in DataFiles :
       /\ df_file' = f
       /\ file_state' = IF has_required_cols(f.columns) THEN "accepted" ELSE "rejected"
  /\ UNCHANGED <<app, gemini_api_key, request_text, run_pc, run_i, page, api_log,
                 in_flight, filtered_data_markdown, valid_requests>>
  /\ UNCHANGED <<vars_debug, vars_report, vars_doc, vars_cross, vars_tidy>>

\* a line is typed into the text area, which is there once the file is accepted
TypeRequestLine ==
  /\ file_state = "accepted"
  /\ run_pc = "idle"
  /\ Len(request_text) < MaxRequests
  /\ \E line \in RequestLines : request_text' = Append(request_text, line)
  /\ UNCHANGED <<app, gemini_api_key, df_file, file_state, run_pc, run_i, page,
                 api_log, in_flight, filtered_data_markdown, valid_requests>>
  /\ UNCHANGED <<vars_debug, vars_report, vars_doc, vars_cross, vars_tidy>>

\* the button "分析コメントを生成する": the page is drawn anew, then the checks
\* of the key and of the text, then the run starts
ClickGenerate ==
  /\ file_state = "accepted"
  /\ run_pc \in {"idle", "done"}
  /\ api_log' = <<>>
  /\ filtered_data_markdown' = <<>>
  /\ valid_requests' = <<>>
  /\ IF ~gemini_api_key
     THEN /\ page' = <<Error("set the API key")>>
          /\ run_pc' = "done"
          /\ run_i' = 0
     ELSE IF is_blank_text(request_text)
     THEN /\ page' = <<Warning(<<"enter a request">>)>>
          /\ run_pc' = "done"
          /\ run_i' = 0
     ELSE /\ page' = IF app = "app2" THEN <<Subheader>> ELSE <<>>
          /\ run_pc' = "loop"
          /\ run_i' = 1
  /\ UNCHANGED <<app, gemini_api_key, df_file, file_state, request_text, in_flight>>
  /\ UNCHANGED <<vars_debug, vars_report, vars_doc, vars_cross, vars_tidy>>

\* the end of a turn of the loop of app2: the next line, or the end of the run
NextTurn ==
  /\ run_i' = run_i + 1
  /\ run_pc' = IF run_i < Len(request_list_of(request_text)) THEN "loop" ELSE "done"

\* app2, one turn of the loop up to the call of generate_content
ProcessRequest ==
  /\ app = "app2"
  /\ run_pc = "loop"
  /\ LET req == request_list_of(request_text)[run_i]
     IN  IF has_two_fields(req)
         THEN LET qid == Strip(req[1])
                  attr == Strip(req[2])
                  sub == subset_df(df_file.rows, qid, attr)
              IN  IF sub # <<>>
                  THEN LET q_text == sub[1]["QuestionText"]
                           a_type == sub[1]["AnswerType"]
                           data_md == dataframe_to_markdown(sub, qid, attr, q_text, a_type)
                           final_prompt ==
                             generate_single_analysis_prompt(data_md, app2_user_example)
                       IN  /\ api_log' = Append(api_log, CallEvent(final_prompt))
                           /\ in_flight' = in_flight + 1
                           /\ run_pc' = "call"
                           /\ UNCHANGED <<page, run_i>>
                  ELSE /\ page' = Append(page, no_data_warning(qid, attr))
                       /\ NextTurn
                       /\ UNCHANGED <<api_log, in_flight>>
         ELSE /\ page' = Append(page, bad_format_warning(req))
              /\ NextTurn
              /\ UNCHANGED <<api_log, in_flight>>
  /\ UNCHANGED <<app, gemini_api_key, df_file, file_state, request_text,
                 filtered_data_markdown, valid_requests>>
  /\ UNCHANGED <<vars_debug, vars_report, vars_doc, vars_cross, vars_tidy>>

\* an except inside the loop would hand the exception back to the loop
after_exception_in_loop(i, n) == IF i < n THEN "loop" ELSE "done"

\* where the handler is after generate_content raised at request i of n: the
\* try of line 156 is around the whole loop, so the handler is over
after_exception(i, n) == "done"

\* app2, generate_content returns and the comment is drawn, or it raises and
\* the except of line 196 ends the handler
Respond ==
  /\ app = "app2"
  /\ run_pc = "call"
  /\ in_flight' = in_flight - 1
  /\ \/ /\ page' = Append(page, Markdown(ResponseText(api_log[Len(api_log)].prompt)))
        /\ run_pc' = "sleep"
     \/ \E e \in GenErrors :
          /\ page' = st_error(page, e)
          /\ run_pc' = after_exception(run_i, Len(request_list_of(request_text)))
  /\ UNCHANGED <<app, gemini_api_key, df_file, file_state, request_text, run_i,
                 api_log, filtered_data_markdown, valid_requests>>
  /\ UNCHANGED <<vars_debug, vars_report, vars_doc, vars_cross, vars_tidy>>

\* app2, time.sleep(4) and the end of the turn
Sleep ==
  /\ app = "app2"
  /\ run_pc = "sleep"
  /\ api_log' = Append(api_log, SleepEvent)
  /\ NextTurn
  /\ UNCHANGED <<app, gemini_api_key, df_file, file_state, request_text, page,
                 in_flight, filtered_data_markdown, valid_requests>>
  /\ UNCHANGED <<vars_debug, vars_report, vars_doc, vars_cross, vars_tidy>>

\* opp, one turn of the loop
CollectRequest ==
  /\ app = "opp"
  /\ run_pc = "loop"
  /\ LET req == request_list_of(request_text)[run_i]
     IN  IF has_two_fields(req)
         THEN LET qid == Strip(req[1])
                  attr == Strip(req[2])
                  sub == subset_df(df_file.rows, qid, attr)
              IN  IF sub # <<>>
                  THEN LET q_text == sub[1]["QuestionText"]
                           a_type == sub[1]["AnswerType"]
                       IN  /\ filtered_data_markdown' =
                                Append(filtered_data_markdown,
                                       opp_dataframe_to_markdown(sub, qid, attr, q_text, a_type))
                           /\ valid_requests' = Append(valid_requests, qid \o <<",">> \o attr)
                           /\ UNCHANGED page
                  ELSE /\ page' = Append(page, no_data_warning(qid, attr))
                       /\ UNCHANGED <<filtered_data_markdown, valid_requests>>
         ELSE /\ page' = Append(page, bad_format_warning(req))
              /\ UNCHANGED <<filtered_data_markdown, valid_requests>>
  /\ run_i' = run_i + 1
  /\ run_pc' = IF run_i < Len(request_list_of(request_text)) THEN "loop" ELSE "built"
  /\ UNCHANGED <<app, gemini_api_key, df_file, file_state, request_text, api_log,
                 in_flight>>
  /\ UNCHANGED <<vars_debug, vars_report, vars_doc, vars_cross, vars_tidy>>

\* opp, after the loop: the one call of generate_content, or the error of
\* line 197 when nothing was collected
GenerateReport ==
  /\ app = "opp"
  /\ run_pc = "built"
  /\ IF filtered_data_markdown # <<>>
     THEN /\ api_log' = Append(api_log,
                 CallEvent(generate_analysis_prompt(filtered_data_markdown,
                                                    Join(valid_requests, "\n"),
                                                    opp_user_example)))
          /\ in_flight' = in_flight + 1
          /\ run_pc' = "call"
          /\ UNCHANGED page
     ELSE /\ page' = Append(page, Error("no data for the requests"))
          /\ run_pc' = "done"
          /\ UNCHANGED <<api_log, in_flight>>
  /\ UNCHANGED <<app, gemini_api_key, df_file, file_state, request_text, run_i,
                 filtered_data_markdown, valid_requests>>
  /\ UNCHANGED <<vars_debug, vars_report, vars_doc, vars_cross, vars_tidy>>

\* opp, generate_content returns and the report is drawn, or it raises and
\* the except of line 199 ends the handler
RespondReport ==
  /\ app = "opp"
  /\ run_pc = "call"
  /\ in_flight' = in_flight - 1
  /\ run_pc' = "done"
  /\ \/ page' = page \o <<Subheader, Markdown(ResponseText(api_log[Len(api_log)].prompt))>>
     \/ \E e \in GenErrors : page' = st_error(page, e)
  /\ UNCHANGED <<app, gemini_api_key, df_file, file_state, request_text, run_i,
                 api_log, filtered_data_markdown, valid_requests>>
  /\ UNCHANGED <<vars_debug, vars_report, vars_doc, vars_cross, vars_tidy>>

NextGen ==
  \/ UploadFile \/ TypeRequestLine \/ ClickGenerate
  \/ ProcessRequest \/ Respond \/ Sleep
  \/ CollectRequest \/ GenerateReport \/ RespondReport

SpecGen == InitGen /\ [][NextGen]_vars

(***************************************************************************)
(* Claims about label resolution (for_debug.get_labels), under SpecDebug.  *)
(***************************************************************************)
\* get_labels returned for a value that is not missing
Resolved == g_pc = "done" /\ ~is_missing(g_val)

\* the code of part i of the resolved value, as it is looked up
CodeOfPart(i) == clean_p(parts_of(g_val)[i])

\* the entries the choice master declares for the resolved question
Declared == Get(choice_map, g_qid, <<>>)

OverrideAxes == {Q03, Q01}

\* label l is longer than code c and holds c as a contiguous piece
Embeds(l, c) ==
  /\ Len(l) > Len(c)
  /\ \E j \in 1..(Len(l) - Len(c) + 1) : SubSeq(l, j, j + Len(c) - 1) = c

\* the precedence of C4 for part i: override table, else dictionary, else a
\* placeholder that embeds the code
FollowsPrecedence(i) ==
  LET c == CodeOfPart(i)
      l == g_labels[i]
      table == Get(area_age_maps, g_qid, <<>>)
  IN  IF g_qid \in OverrideAxes
      THEN IF Has(table, c)
           THEN l = Get(table, c, <<>>)
           ELSE Embeds(l, c) /\ l \notin {Declared[j].v : j \in 1..Len(Declared)}
      ELSE IF Has(Declared, c)
           THEN l = Get(Declared, c, <<>>)
           ELSE Embeds(l, c)

\* C4 as stated: every part of a non-missing value gets a label by the
\* precedence override table > choice dictionary > placeholder, one label per
\* part, and the label is never empty.
C4_AlwaysNonEmptyLabel ==
  Resolved =>
    /\ Len(g_labels) = Len(parts_of(g_val))
    /\ \A i \in 1..Len(g_labels) : FollowsPrecedence(i) /\ g_labels[i] # <<>>

\* C4 as amended: the same precedence, and a label is empty only when the
\* question is not an override axis and the choice dictionary itself declares
\* an empty label for that code; what is returned is the labels joined by ",".
C4_PrecedenceAndTotal ==
  Resolved =>
    /\ Len(g_labels) = Len(parts_of(g_val))
    /\ g_out = Join(g_labels, ",")
    /\ \A i \in 1..Len(g_labels) :
         /\ FollowsPrecedence(i)
         /\ g_labels[i] = <<>> =>
              /\ g_qid \notin OverrideAxes
              /\ Has(Declared, CodeOfPart(i))
              /\ Get(Declared, CodeOfPart(i), <<"x">>) = <<>>

\* C4's case: the choice master declares "A" for code 1 of the override axis
\* Q0-3 and get_labels still answers with the built-in label
C4_Witness ==
  /\ g_pc = "done"
  /\ g_qid = Q03
  /\ g_val = <<"1">>
  /\ Get(Get(choice_map, Q03, <<>>), <<"1">>, <<>>) = <<"A">>
  /\ g_out = <<"Nisshin">>

\* C7 as stated: the key a part is looked up by is the part with surrounding
\* whitespace trimmed and a trailing ".0" dropped, and nothing else.
C7_OnlyTrailingDotZero ==
  Resolved =>
    \A i \in 1..Len(parts_of(g_val)) :
      CodeOfPart(i) = StripDotZero(Strip(Split(g_val, ",")[i]))


(***************************************************************************)
(* Claims about the percentage rows, under SpecReport.                     *)
(***************************************************************************)
\* the displayed percentages of the written row a, added up, in tenths
RowSum(a) == SumOver(report[a], DOMAIN report[a])

\* how far x is from 100.0%, in tenths
OffHundred(x) == IF x >= 1000 THEN x - 1000 ELSE 1000 - x

\* C10 as stated: every written row sums to 100.0 within 0.1, whatever the
\* number of columns.
C10_RowSumsWithinTenth ==
  p_pc = "done" => \A a \in DOMAIN report : OffHundred(RowSum(a)) <= 1

\* C10 as amended: a written row of n columns sums to 100.0 within 0.05 * n,
\* so within 0.1 when the table has at most three columns.
C10_RowSumsWithinHalfTenthPerColumn ==
  p_pc = "done" =>
    \A a \in DOMAIN report :
      LET n == Cardinality(DOMAIN report[a])
      IN  /\ row_total(counts, a) > 0
          /\ 2 * OffHundred(RowSum(a)) <= n
          /\ n <= 3 => OffHundred(RowSum(a)) <= 1

\* C10's case: a written row of three columns, a third each, shows 33.3% three
\* times, 99.9 in all
C10_Witness ==
  /\ p_pc = "done"
  /\ \E a \in DOMAIN report :
       /\ Cardinality(DOMAIN report[a]) = 3
       /\ \A c \in DOMAIN report[a] : report[a][c] = 333
       /\ RowSum(a) = 999

(***************************************************************************)
(* Claims about parsing a definition document, under SpecParse.            *)
(***************************************************************************)
\* the id block i names, <<>> when it has no "qid:" line
BlockId(i) ==
  LET ids == LinesOfKind(doc_blocks[i], "qid")
  IN  IF ids = {} THEN <<>> ELSE doc_blocks[i][Min(ids)].v

\* the parser that ran keeps block i: it needs an id, parse_metadata a type too
Kept(i) ==
  /\ BlockId(i) # <<>>
  /\ parsed_by = "parse_metadata" => LinesOfKind(doc_blocks[i], "type") # {}

\* no later kept block names the id of block i
LastWithItsId(i) ==
  \A j \in (i + 1)..Len(doc_blocks) : Kept(j) => BlockId(j) # BlockId(i)

\* the choices sub-section of block i has a line that is no "<k>: <v>" pair
MalformedChoices(i) == LinesOfKind(doc_blocks[i], "junk") # {}

\* the "<k>: <v>" lines of block i as a dictionary
OwnChoices(i) ==
  LET pairs == SelectSeq(doc_blocks[i], IsPair)
  IN  DictOf([j \in 1..Len(pairs) |-> [k |-> pairs[j].k, v |-> pairs[j].v]])

\* the choice dictionary of the parsed definition of id
ChoicesOf(id) ==
  IF parsed_by = "parse_metadata"
  THEN Get(q_defs, id, [choices_map |-> <<>>]).choices_map
  ELSE Get(q_defs, id, [choices |-> <<>>]).choices

\* the question text of the parsed definition e
TextOf(e) == IF parsed_by = "parse_metadata" THEN e.v.Question ELSE e.v.title

Parsed == parsed_by # "none"

\* no later kept block that is well-formed names the id of block i
LastWellFormedWithItsId(i) ==
  \A j \in (i + 1)..Len(doc_blocks) :
    (Kept(j) /\ ~MalformedChoices(j)) => BlockId(j) # BlockId(i)

\* C8 as stated: a block without id yields nothing, a kept block whose choices
\* sub-section is malformed gets an empty dictionary, and every well-formed
\* kept block (the last such block of its id) is in the mapping with its own
\* choices, whatever the bad blocks of the document are.
C8_BadBlockIsolated ==
  Parsed =>
    /\ Keys(q_defs) \subseteq {BlockId(i) : i \in 1..Len(doc_blocks)} \ {<<>>}
    /\ \A i \in 1..Len(doc_blocks) :
         /\ (Kept(i) /\ MalformedChoices(i) /\ LastWithItsId(i))
               => ChoicesOf(BlockId(i)) = <<>>
         /\ (Kept(i) /\ ~MalformedChoices(i) /\ LastWellFormedWithItsId(i))
               => Has(q_defs, BlockId(i)) /\ ChoicesOf(BlockId(i)) = OwnChoices(i)

\* C8 as amended: the mapping has exactly the ids of the kept blocks, and the
\* definition of an id has the choices of the last kept block that names it:
\* the lines of that block that are "<k>: <v>" pairs (none, when no line is),
\* whatever the other blocks are.
C8_PartialSuccess ==
  Parsed =>
    /\ Keys(q_defs) = {BlockId(i) : i \in {j \in 1..Len(doc_blocks) : Kept(j)}}
    /\ \A i \in 1..Len(doc_blocks) :
         (Kept(i) /\ LastWithItsId(i)) => ChoicesOf(BlockId(i)) = OwnChoices(i)

\* C8's case: a document of two blocks, one without id, the other with its own
\* choices; the mapping has the one definition, with those choices
C8_Witness ==
  /\ Parsed
  /\ Len(doc_blocks) = 2
  /\ \E i, j \in 1..2 :
       /\ BlockId(i) = <<>>
       /\ Kept(j)
       /\ OwnChoices(j) # <<>>
       /\ Keys(q_defs) = {BlockId(j)}
       /\ ChoicesOf(BlockId(j)) = OwnChoices(j)

\* C9 as stated: an id occurs once in the parsed mapping, and a definition
\* whose id has no header has its own id as question text, which is never empty.
C9_TextFallsBackToId ==
  Parsed =>
    /\ \A i, j \in 1..Len(q_defs) : q_defs[i].k = q_defs[j].k => i = j
    /\ \A i \in 1..Len(q_defs) :
         /\ ~Has(doc_headers, q_defs[i].k) => TextOf(q_defs[i]) = q_defs[i].k
         /\ TextOf(q_defs[i]) # <<>>


(***************************************************************************)
(* Claims about the crosstab page (SpecCross).                             *)
(***************************************************************************)
\* the respondents whose cells on both chosen axes are filled
NonNullOnBoth == {i \in 1..Len(df_raw) : df_raw[i][row_var] # NaN /\ df_raw[i][col_var] # NaN}

\* the respondents whose cell on the axis var is empty
EmptyOn(var) == {i \in 1..Len(df_raw) : df_raw[i][var] = NaN}

\* C2, as stated: the grand total of the count table is the number of
\* respondents with a non-null value on both axes.
C2_GrandTotalCountsNonNull ==
  x_shown => ct_count[<<Total, Total>>] = Cardinality(NonNullOnBoth)

\* C2, amended: the grand total is the number of all respondents; the ones
\* with an empty cell are counted under the no-answer label of that axis;
\* every margin is the sum of its row or column; tables are drawn only for
\* two different axes.
C2_GrandTotalCountsEveryRow ==
  x_shown =>
    /\ row_var # col_var
    /\ ct_count[<<Total, Total>>] = Len(df_raw)
    /\ EmptyOn(row_var) # {} =>
         /\ NoAnswer \in RowsOf(ct_count)
         /\ ct_count[<<NoAnswer, Total>>] = Cardinality(EmptyOn(row_var))
    /\ EmptyOn(col_var) # {} =>
         /\ NoAnswer \in ColsOf(ct_count)
         /\ ct_count[<<Total, NoAnswer>>] = Cardinality(EmptyOn(col_var))
    /\ \A r \in RowsOf(ct_count) :
         LET inner == [c \in ColsOf(ct_count) |-> ct_count[<<r, c>>]]
         IN  ct_count[<<r, Total>>] = SumOver(inner, ColsOf(ct_count) \ {Total})
    /\ \A c \in ColsOf(ct_count) :
         LET inner == [r \in RowsOf(ct_count) |-> ct_count[<<r, c>>]]
         IN  ct_count[<<Total, c>>] = SumOver(inner, RowsOf(ct_count) \ {Total})

\* C2, witness: tables are drawn for data where a respondent left an axis
\* empty, and the grand total exceeds the number of fully answered rows.
C2_Witness ==
  /\ x_shown
  /\ Len(df_raw) = MaxRows
  /\ Cardinality(NonNullOnBoth) = 1
  /\ EmptyOn(row_var) # {}
  /\ EmptyOn(col_var) # {}
  /\ ct_count[<<Total, Total>>] = MaxRows

\* C3, as stated: the percentage table has a Total row, holding the share
\* of each column among all respondents.
C3_PercentHasTotalRow ==
  x_shown =>
    /\ Total \in RowsOf(ct_percent)
    /\ \A c \in ColsOf(ct_percent) :
         ct_percent[<<Total, c>>] =
           PctTenths(ct_count[<<Total, c>>], ct_count[<<Total, Total>>])

\* C3, amended: the percentage table has the row and column labels of the
\* count table without Total; each cell is the count of the cell over the
\* total of its row, to one decimal (86.2 / 13.8 for 250 and 40 of 290,
\* 71.4 / 28.6 for 150 and 60 of 210); the Total row is in the count table
\* only.
C3_PercentRowsAreRowShares ==
  /\ PctTenths(250, 290) = 862 /\ PctTenths(40, 290) = 138
  /\ PctTenths(150, 210) = 714 /\ PctTenths(60, 210) = 286
  /\ x_shown =>
       /\ Total \in RowsOf(ct_count) /\ Total \in ColsOf(ct_count)
       /\ RowsOf(ct_percent) = RowsOf(ct_count) \ {Total}
       /\ ColsOf(ct_percent) = ColsOf(ct_count) \ {Total}
       /\ \A p \in DOMAIN ct_percent :
            ct_percent[p] = PctTenths(ct_count[p], ct_count[<<p[1], Total>>])

\* C3, witness: a percentage table of two rows, one of them split evenly
\* over two columns, next to a count table with its Total row.
C3_Witness ==
  /\ x_shown
  /\ Cardinality(RowsOf(ct_percent)) = 2
  /\ \E p, q \in DOMAIN ct_percent :
       /\ p[1] = q[1]
       /\ p[2] # q[2]
       /\ ct_percent[p] = 500
       /\ ct_percent[q] = 500
  /\ Total \in RowsOf(ct_count)

\* C5, as stated: a cell that spells a missing value (nan, none, null, in
\* any case, or nothing) is shown as the no-answer label, on the crosstab
\* page as in get_labels.
C5_MissingSpellingsAreNoAnswer ==
  x_shown =>
    \A i \in 1..Len(df_raw) :
      /\ Lower(StrOf(df_raw[i][row_var])) \in MissingWords => df_plot[i].r = NoAnswer
      /\ Lower(StrOf(df_raw[i][col_var])) \in MissingWords => df_plot[i].c = NoAnswer

(***************************************************************************)
(* Claims about the converter (SpecTidy).                                  *)
(***************************************************************************)
\* the question columns of the answer file that the definitions know
KnownColumns == {q \in {Q1, Q2} : Has(q_defs, q)}

\* the output rows of respondent i and question q, as positions in result_df
RecordsOf(i, q) ==
  {k \in 1..Len(result_df) : result_df[k].No = data_df[i][NoCol] /\ result_df[k].qid = q}

\* the cell spells a missing answer
MissingCell(i, q) == Lower(StrOf(data_df[i][q])) \in MissingWords

NonEmptyParts(cell) ==
  LET parts == Split(cell, ",")
      NonEmpty(p) == Strip(p) # <<>>
  IN  SelectSeq(parts, NonEmpty)

\* C6, as stated: for a multi question a filled cell gives as many output
\* rows as it has non-empty parts, none of them with an empty label.
C6_OneRecordPerNonEmptyPart ==
  converted =>
    \A i \in 1..Len(data_df) : \A q \in KnownColumns :
      (Get(q_defs, q, <<>>).type = Multi /\ ~MissingCell(i, q)) =>
        /\ Cardinality(RecordsOf(i, q)) = Len(NonEmptyParts(data_df[i][q]))
        /\ \A k \in RecordsOf(i, q) : result_df[k].choices # <<>>

(***************************************************************************)
(* Claims about the report pages (SpecGen).                                *)
(***************************************************************************)
\* the request list of the run
Requests == request_list_of(request_text)

\* a request of exactly two fields
WellFormed(req) == Len(req) = 2

\* a well-formed request whose pair is the pair of some row of the file
MatchesData(req) ==
  /\ WellFormed(req)
  /\ \E k \in 1..Len(df_file.rows) :
       /\ df_file.rows[k]["QuestionID"] = Strip(req[1])
       /\ df_file.rows[k]["Attribute"] = Strip(req[2])

\* the pairs of the requests from..to that match data, in the order of the list
MatchedPairs(from, to) ==
  LET picked == SelectSeq(SubSeq(Requests, from, to), MatchesData)
  IN  [k \in 1..Len(picked) |-> <<Strip(picked[k][1]), Strip(picked[k][2])>>]

\* the pairs written as the lines "<id>,<attribute>"
PairTexts(pairs) == [k \in 1..Len(pairs) |-> pairs[k][1] \o <<",">> \o pairs[k][2]]

\* the generation calls of the run, in order
IsCall(event) == event.ev = "generate_content"
Calls == SelectSeq(api_log, IsCall)

\* the pair a call of app2 was made for: the one its table is headed with
CalledPairs ==
  [k \in 1..Len(Calls) |->
     LET header == Calls[k].prompt.data_markdown[1].header
     IN  <<header[2], header[3]>>]

\* a run of the handler has passed the checks of the key and of the text
RunStarted == run_pc # "idle" /\ gemini_api_key /\ ~is_blank_text(request_text)

\* the run has ended
RunEnded == RunStarted /\ run_pc = "done"

\* the error of a failed generation call is on the page
GenFailed == \E k \in 1..Len(page) : page[k].kind = "error" /\ page[k].text \in GenErrors

\* time.sleep was called between any two generation calls
Paced ==
  \A j, k \in 1..Len(api_log) :
    (j < k /\ IsCall(api_log[j]) /\ IsCall(api_log[k])) =>
      \E m \in (j + 1)..(k - 1) : api_log[m] = SleepEvent

\* C11, as stated: in a run of app2 the service is called once for each
\* request that is well-formed and matches data, in the order of the list,
\* never two calls at a time, with a sleep between two calls.
C11_OneCallPerMatchedRequest ==
  app = "app2" =>
    /\ in_flight <= 1
    /\ Paced
    /\ RunEnded => CalledPairs = MatchedPairs(1, Len(Requests))

\* C11, what the loop does keep: the calls made so far are those of the
\* matching requests among the ones the loop has reached, in order; a run
\* that ends without a failed call has made one call for every matching
\* request of the list, a run that ends on a failed call has made none after
\* it; never two calls at a time, and a sleep between two calls.
C11_OneCallPerMatchedRequestUntilFailure ==
  (app = "app2" /\ RunStarted) =>
    /\ in_flight <= 1
    /\ in_flight = 1 <=> run_pc = "call"
    /\ Paced
    /\ CalledPairs = MatchedPairs(1, IF run_pc = "loop" THEN run_i - 1
                                     ELSE IF run_i > Len(Requests) THEN Len(Requests)
                                     ELSE run_i)
    /\ (RunEnded /\ ~GenFailed) => CalledPairs = MatchedPairs(1, Len(Requests))
    /\ \A k \in 1..Len(Calls) :
         LET md == Calls[k].prompt.data_markdown[1]
         IN  /\ md.table.body # <<>>
             /\ Len(md.table.body) = Len(subset_df(df_file.rows, CalledPairs[k][1],
                                                   CalledPairs[k][2]))

\* C11, its case without a failure: a run of app2 ended after two calls, with
\* a request in the list that was skipped.
C11_Witness ==
  /\ app = "app2"
  /\ RunEnded
  /\ ~GenFailed
  /\ Len(Calls) = 2
  /\ Len(Requests) = 3
  /\ MatchesData(Requests[1]) /\ ~MatchesData(Requests[2]) /\ MatchesData(Requests[3])

\* the requests the loop has finished with: all before run_i, and the one at
\* run_i once its call was made
Reached ==
  IF run_pc = "loop" THEN run_i - 1
  ELSE IF run_i > Len(Requests) THEN Len(Requests)
  ELSE run_i

\* the warnings and the comments on the page, in order
IsWarning(element) == element.kind = "warning"
IsComment(element) == element.kind = "markdown"
Warnings == SelectSeq(page, IsWarning)
Comments == SelectSeq(page, IsComment)

\* the requests from..to that are malformed or match no row
Skipped(req) == ~MatchesData(req)
SkippedRequests(from, to) == SelectSeq(SubSeq(Requests, from, to), Skipped)

\* the warning a skipped request is reported with
WarningOf(req) ==
  IF WellFormed(req)
  THEN Warning(<<"no data", Strip(req[1]), Strip(req[2])>>)
  ELSE Warning(<<"bad format", Join(req, ",")>>)

\* C12, as stated: at the end of a run whose list has a malformed or
\* unmatched request, every such request has its one warning, and every
\* other request, which matches data, has contributed: its comment is on the
\* page (app2), its pair is in the collected list (opp).
C12_SkippedLineNeverAborts ==
  (RunEnded /\ SkippedRequests(1, Len(Requests)) # <<>>) =>
    /\ Len(Warnings) = Len(SkippedRequests(1, Len(Requests)))
    /\ app = "app2" => Len(Comments) = Len(MatchedPairs(1, Len(Requests)))
    /\ app = "opp" => valid_requests = PairTexts(MatchedPairs(1, Len(Requests)))

\* C12, what the loop does keep: the warnings on the page are those of the
\* skipped requests the loop has reached, one each and in order, and every
\* matching request it has reached has contributed; the loop reaches every
\* request of the list unless a generation call of app2 fails, which is the
\* one thing that ends it early.
C12_SkippedLineIsWarnedAndPassed ==
  RunStarted =>
    /\ Warnings = [k \in 1..Len(SkippedRequests(1, Reached)) |->
                     WarningOf(SkippedRequests(1, Reached)[k])]
    /\ app = "app2" =>
         /\ Len(Calls) = Len(MatchedPairs(1, Reached))
         /\ Len(Comments) = Len(Calls) - (IF run_pc = "call" \/ GenFailed THEN 1 ELSE 0)
         /\ (run_pc = "done" /\ ~GenFailed) => Reached = Len(Requests)
    /\ app = "opp" =>
         /\ valid_requests = PairTexts(MatchedPairs(1, Reached))
         /\ Len(filtered_data_markdown) = Len(valid_requests)
         /\ run_pc \in {"built", "call", "done"} => Reached = Len(Requests)

\* C12, its case without a failure: a run ended with a comment for the first
\* and the third request and one warning for the malformed second one.
C12_Witness ==
  /\ RunEnded
  /\ app = "app2"
  /\ Len(Requests) = 3
  /\ ~WellFormed(Requests[2])
  /\ Len(Warnings) = 1
  /\ Len(Comments) = 2
  /\ page[3] = WarningOf(Requests[2])

\* the columns of the uploaded file, whatever their order
FileColumns == {df_file.columns[k] : k \in 1..Len(df_file.columns)}

\* the eight columns the claim names
EightColumns ==
  {"QuestionID", "QuestionText", "AnswerType", "Attribute", "Category", "Choice",
   "ValueType", "Value"}

\* C13: an uploaded file that lacks one of the eight columns is rejected with
\* the error, and then no request is taken, no line is processed and no
\* generation call is made; a file that has the eight is accepted, in any
\* column order and with any further column.
C13_MissingColumnStopsEverything ==
  file_state # "none" =>
    /\ file_state = "accepted" <=> EightColumns \subseteq FileColumns
    /\ file_state = "rejected" <=> EightColumns \ FileColumns # {}
    /\ file_state = "rejected" =>
         /\ request_text = <<>>
         /\ run_pc = "idle"
         /\ run_i = 0
         /\ page = <<>>
         /\ api_log = <<>>
         /\ in_flight = 0

\* C13, witness: the file without the Value column was uploaded and rejected.
C13_Witness ==
  /\ file_state = "rejected"
  /\ EightColumns \ FileColumns = {"Value"}
  /\ api_log = <<>>

\* the errors on the page, in order
IsError(element) == element.kind = "error"
Errors == SelectSeq(page, IsError)

\* a step in which a generation call comes back without a comment: it failed
CallFails == in_flight = 1 /\ in_flight' = 0 /\ Comments' = Comments

\* C14: when a generation call fails, the handler does not crash: the step
\* adds one error element that carries the message of the exception, behind
\* everything the run has drawn so far, which stays as it was; the call is
\* not made again; and while the error is on the page nothing on it changes.
C14_FailureReportedOutputKept ==
  [][ /\ CallFails =>
           /\ \E e \in GenErrors : page' = Append(page, Error(e))
           /\ api_log' = api_log
           /\ run_pc' = "done"
      /\ (GenFailed /\ GenFailed') => (page' = page /\ api_log' = api_log)
    ]_vars

\* C14, witness: a run of app2 whose second call failed: the comment of the
\* first call is on the page, followed by the error; two calls were made.
C14_Witness ==
  /\ app = "app2"
  /\ GenFailed
  /\ Len(Calls) = 2
  /\ Len(page) = 3
  /\ page[2].kind = "markdown"
  /\ page[3] = Error("quota exceeded")

\* C15: in a run of app2, once a generation call has failed the run is over
\* at the request of that call: its error is the last element of the page,
\* the failed call is the last event, and the calls and warnings are those
\* of the requests up to the failed one, none of a later request.
C15_FailureEndsRun ==
  (app = "app2" /\ GenFailed) =>
    /\ run_pc = "done"
    /\ in_flight = 0
    /\ run_i <= Len(Requests)
    /\ MatchesData(Requests[run_i])
    /\ Len(Errors) = 1
    /\ IsError(page[Len(page)])
    /\ IsCall(api_log[Len(api_log)])
    /\ CalledPairs = MatchedPairs(1, run_i)
    /\ Len(Comments) = Len(Calls) - 1
    /\ Len(Warnings) = Len(SkippedRequests(1, run_i))

\* C15, witness: the first call of a run of app2 failed, and the list goes on
\* with a request that matches data and one that does not: one call, no
\* warning.
C15_Witness ==
  /\ app = "app2"
  /\ GenFailed
  /\ run_i = 1
  /\ Len(Requests) = 3
  /\ MatchesData(Requests[2])
  /\ ~MatchesData(Requests[3])
  /\ Len(Calls) = 1
  /\ Warnings = <<>>

\* the table of a pair as the claim describes it: the rows of the file with
\* that question id and attribute
RowsOfPair(pair) ==
  {k \in 1..Len(df_file.rows) :
     df_file.rows[k]["QuestionID"] = pair[1] /\ df_file.rows[k]["Attribute"] = pair[2]}

\* C16: a run of opp makes at most one generation call: one when a request of
\* the list is well-formed and matches data, none, with the error, when no
\* request does; the prompt has the tables of the matching pairs, in the order
\* of the list, each with a row per row of its pair, and its request list
\* names those pairs and no other.
C16_OneCallForMatchedPairs ==
  (app = "opp" /\ RunStarted) =>
    LET matched == MatchedPairs(1, Len(Requests))
    IN  /\ Len(Calls) <= 1
        /\ in_flight <= 1
        /\ run_pc \in {"call", "done"} => (Len(Calls) = 1 <=> matched # <<>>)
        /\ (run_pc = "done" /\ matched = <<>>) =>
             /\ Len(Errors) = 1
             /\ ~GenFailed
        /\ Len(Calls) = 1 =>
             LET prompt == Calls[1].prompt
             IN  /\ prompt.user_request = Join(PairTexts(matched), "\n")
                 /\ Len(prompt.data_markdown) = Len(matched)
                 /\ \A k \in 1..Len(matched) :
                      /\ SubSeq(prompt.data_markdown[k].header, 1, 2) = matched[k]
                      /\ Len(prompt.data_markdown[k].table.body)
                           = Cardinality(RowsOfPair(matched[k]))

\* C16, witness: a run of opp over three requests, the second one skipped,
\* made its one call with the two matching pairs.
C16_Witness ==
  /\ app = "opp"
  /\ RunEnded
  /\ Len(Requests) = 3
  /\ ~MatchesData(Requests[2])
  /\ Len(Calls) = 1
  /\ Len(Calls[1].prompt.data_markdown) = 2
  /\ Len(Warnings) = 1

====
